---------------------------- MODULE Spec2Model ----------------------------
(***************************************************************************)
(* Model of ESPnetEZ/ST/integrate_huggingface.ipynb:                       *)
(*   - CustomDataset: the corpus loader (__init__, __len__, __getitem__);  *)
(*   - CustomFinetuneModel: the loss accumulator and periodic log line of  *)
(*     forward.                                                            *)
(* Text is modelled as a sequence of tokens.  A token is one unit of a     *)
(* line: a space, a word, or one SGML escape ("&apos;", "&quot;", "&amp;") *)
(* taken as a whole; str.strip, str.split(maxsplit=1) and str.replace are  *)
(* computed on these sequences the way Python computes them on characters. *)
(***************************************************************************)
EXTENDS Integers, Sequences, FiniteSets, TLC

VARIABLES
    trFile,      \* lines of <data_path>/text.tc.de, in file order
    txFile,      \* lines of <data_path>/text, in file order
    phase,       \* "new" | "ready" (constructor returned) | "failed" (it raised)
    err,         \* the exception the constructor raised, and where
    data,        \* self.data: insertion-ordered dict identifier -> record
    keys,        \* self.keys
    lenRet,      \* <<n>> for the most recent len(dataset) = n, <<>> before any
    hist,        \* per index: outcome of the most recent dataset[idx]
    log_every,   \* self.log_every
    loss_acc,    \* self.log_stats['loss']
    iter_count,  \* self.iter_count
    logs,        \* the log lines printed so far, oldest first
    callLog      \* per forward call so far: its outcome and loss

dsVars == <<trFile, txFile, phase, err, data, keys, lenRet, hist>>
fmVars == <<log_every, loss_acc, iter_count, logs, callLog>>
vars == <<trFile, txFile, phase, err, data, keys, lenRet, hist,
          log_every, loss_acc, iter_count, logs, callLog>>

---------------------------------------------------------------------------
(* Bounds *)

MaxLines == 2      \* lines per corpus file
MaxCalls == 4      \* forward calls per model object
MaxLoss == 2       \* losses are drawn from 0..MaxLoss
MaxLogEvery == 3   \* log_every is drawn from 1..MaxLogEvery

---------------------------------------------------------------------------
(* Tokens and strings *)

SP == " "
APOS == "&apos;"
QUOT == "&quot;"
AMP == "&amp;"

IsSpace(t) == t = SP

RECURSIVE LStrip(_)
LStrip(s) ==
    IF s # <<>> /\ IsSpace(Head(s)) THEN LStrip(Tail(s)) ELSE s

RECURSIVE RStrip(_)
RStrip(s) ==
    IF s # <<>> /\ IsSpace(s[Len(s)])
    THEN RStrip(SubSeq(s, 1, Len(s) - 1))
    ELSE s

\* str.strip()
Strip(s) == RStrip(LStrip(s))

\* the maximal run of non-space tokens at the head of s
RECURSIVE TakeWord(_)
TakeWord(s) ==
    IF s = <<>> \/ IsSpace(Head(s))
    THEN <<>>
    ELSE <<Head(s)>> \o TakeWord(Tail(s))

\* a mutant of SplitMax1: a line holding only an identifier yields an empty text
SplitMax1Lenient(s) ==
    LET t == LStrip(s) IN
    IF t = <<>> THEN <<>>
    ELSE LET w == TakeWord(t)
             r == LStrip(SubSeq(t, Len(w) + 1, Len(t)))
         IN  <<w, r>>

\* str.split(maxsplit=1): zero, one or two fields; the second keeps its inner
\* and trailing spaces
SplitMax1(s) ==
    LET t == LStrip(s) IN
    IF t = <<>> THEN <<>>
    ELSE LET w == TakeWord(t)
             r == LStrip(SubSeq(t, Len(w) + 1, Len(t)))
         IN  IF r = <<>> THEN <<w>> ELSE <<w, r>>

\* str.replace(old, new): leftmost non-overlapping occurrences, left to right
RECURSIVE Replace(_, _, _)
Replace(s, old, new) ==
    IF Len(s) < Len(old) THEN s
    ELSE IF SubSeq(s, 1, Len(old)) = old
         THEN new \o Replace(SubSeq(s, Len(old) + 1, Len(s)), old, new)
         ELSE <<Head(s)>> \o Replace(Tail(s), old, new)

\* the three chained replace calls of the constructor
Unescape(s) ==
    Replace(Replace(Replace(s, <<SP, APOS>>, <<"'">>),
                    <<SP, QUOT>>, <<"\"">>),
            <<SP, AMP>>, <<"&">>)

---------------------------------------------------------------------------
(* Python dict, insertion-ordered: a sequence of [k, v] entries *)

DictKeys(d) == [i \in 1..Len(d) |-> d[i].k]
DictHas(d, key) == \E i \in 1..Len(d) : d[i].k = key
DictPos(d, key) == CHOOSE i \in 1..Len(d) : d[i].k = key
DictGet(d, key) == d[DictPos(d, key)].v

\* a mutant of DictSet: assigning to a present key moves it to the end
DictSetMoveToEnd(d, key, val) ==
    IF DictHas(d, key)
    THEN LET p == DictPos(d, key) IN
         SubSeq(d, 1, p - 1) \o SubSeq(d, p + 1, Len(d))
             \o <<[k |-> key, v |-> val]>>
    ELSE Append(d, [k |-> key, v |-> val])

\* d[key] = val: a present key keeps its place, a new key goes last
DictSet(d, key, val) ==
    IF DictHas(d, key)
    THEN [d EXCEPT ![DictPos(d, key)] = [k |-> key, v |-> val]]
    ELSE Append(d, [k |-> key, v |-> val])


---------------------------------------------------------------------------
(* CustomDataset *)

NoErr == [type |-> "none", file |-> "none", line |-> 0]
NoLen == <<>>

\* a mutant of StoreText: the transcript goes to the entry inserted last
StoreTextLastKey(d, audio_id, text) ==
    IF d = <<>>
    THEN [raised |-> TRUE, d |-> d]
    ELSE [raised |-> FALSE,
          d |-> [d EXCEPT ![Len(d)].v = DictSet(d[Len(d)].v, "text", text)]]

\* a mutant of StoreText: an unknown identifier gets a fresh record
StoreTextSetDefault(d, audio_id, text) ==
    [raised |-> FALSE,
     d |-> DictSet(d, audio_id,
                   DictSet(IF DictHas(d, audio_id) THEN DictGet(d, audio_id)
                           ELSE <<>>, "text", text))]

\* self.data[audio_id]['text'] = text; the lookup of audio_id raises KeyError
\* when the translation file did not list it
StoreText(d, audio_id, text) ==
    IF DictHas(d, audio_id)
    THEN [raised |-> FALSE,
          d |-> DictSet(d, audio_id, DictSet(DictGet(d, audio_id), "text", text))]
    ELSE [raised |-> TRUE, d |-> d]

\* the loop over text.tc.de, from line i on
RECURSIVE ReadTranslated(_, _, _)
ReadTranslated(d, lines, i) ==
    IF i > Len(lines) THEN [d |-> d, err |-> NoErr]
    ELSE LET f == SplitMax1(Strip(lines[i])) IN
         IF Len(f) # 2
         THEN [d |-> d,
               err |-> [type |-> "ValueError", file |-> "text.tc.de", line |-> i]]
         ELSE ReadTranslated(
                  DictSet(d, f[1], DictSet(<<>>, "translated", Unescape(f[2]))),
                  lines, i + 1)

\* the loop over text, from line i on
RECURSIVE ReadText(_, _, _)
ReadText(d, lines, i) ==
    IF i > Len(lines) THEN [d |-> d, err |-> NoErr]
    ELSE LET f == SplitMax1(Strip(lines[i])) IN
         IF Len(f) # 2
         THEN [d |-> d,
               err |-> [type |-> "ValueError", file |-> "text", line |-> i]]
         ELSE LET st == StoreText(d, f[1], Unescape(f[2])) IN
              IF st.raised
              THEN [d |-> d,
                    err |-> [type |-> "KeyError", file |-> "text", line |-> i]]
              ELSE ReadText(st.d, lines, i + 1)

\* CustomDataset.__init__ on the two corpus files
DatasetInit(tr, tx) ==
    LET a == ReadTranslated(<<>>, tr, 1) IN
    IF a.err # NoErr THEN a
    ELSE ReadText(a.d, tx, 1)

\* the waveform kaldi_loader yields for an identifier
Wave(key) == <<"wav">> \o key

NoRec == [speech |-> <<>>, text |-> <<>>, translated |-> <<>>]
NotCalled == [kind |-> "none", rec |-> NoRec]
Raised(e) == [kind |-> e, rec |-> NoRec]

\* a mutant of GetItemCall: the fields are popped from the record when read
GetItemPop(d, ks, idx) ==
    LET n == Len(ks)
        p == IF idx >= 0 THEN idx + 1 ELSE n + idx + 1
    IN  IF p < 1 \/ p > n
        THEN [out |-> Raised("IndexError"), data |-> d, keys |-> ks]
        ELSE LET r == DictGet(d, ks[p]) IN
             IF ~DictHas(r, "text") \/ ~DictHas(r, "translated")
             THEN [out |-> Raised("KeyError"), data |-> d, keys |-> ks]
             ELSE [out |-> [kind |-> "ok",
                            rec |-> [speech |-> Wave(ks[p]),
                                     text |-> DictGet(r, "text"),
                                     translated |-> DictGet(r, "translated")]],
                   data |-> DictSet(d, ks[p], <<>>),
                   keys |-> ks]

\* CustomDataset.__getitem__: the outcome, and self.data and self.keys after it
GetItemCall(d, ks, idx) ==
    LET n == Len(ks)
        p == IF idx >= 0 THEN idx + 1 ELSE n + idx + 1
    IN  IF p < 1 \/ p > n
        THEN [out |-> Raised("IndexError"), data |-> d, keys |-> ks]
        ELSE LET r == DictGet(d, ks[p]) IN
             IF ~DictHas(r, "text")
             THEN [out |-> Raised("KeyError"), data |-> d, keys |-> ks]
             ELSE IF ~DictHas(r, "translated")
             THEN [out |-> Raised("KeyError"), data |-> d, keys |-> ks]
             ELSE [out |-> [kind |-> "ok",
                            rec |-> [speech |-> Wave(ks[p]),
                                     text |-> DictGet(r, "text"),
                                     translated |-> DictGet(r, "translated")]],
                   data |-> d,
                   keys |-> ks]

\* CustomDataset.__len__
LenCall(ks) == Len(ks)

\* the lines a corpus file is made of
Lines ==
    { <<"utt1", SP, "a">>,
      <<"utt2", SP, SP, "b">>,
      <<"utt1", SP, "it", SP, APOS, "s", SP, QUOT>>,
      <<"utt2", SP, "it", APOS, "s", SP, AMP, SP>>,
      <<SP, "utt1", SP>>,
      <<SP>> }

Files == UNION { [1..n -> Lines] : n \in 0..MaxLines }

\* the indices __getitem__ is called with
Indices == 0..MaxLines

Construct ==
    /\ phase = "new"
    /\ LET r == DatasetInit(trFile, txFile) IN
       IF r.err = NoErr
       THEN /\ phase' = "ready"
            /\ data' = r.d
            /\ keys' = DictKeys(r.d)
            /\ err' = NoErr
       ELSE /\ phase' = "failed"
            /\ err' = r.err
            /\ UNCHANGED <<data, keys>>
    /\ UNCHANGED <<trFile, txFile, lenRet, hist>>
    /\ UNCHANGED fmVars

DoLen ==
    /\ phase = "ready"
    /\ lenRet' = <<LenCall(keys)>>
    /\ UNCHANGED <<trFile, txFile, phase, err, data, keys, hist>>
    /\ UNCHANGED fmVars

GetItem(idx) ==
    /\ phase = "ready"
    /\ LET r == GetItemCall(data, keys, idx) IN
       /\ hist' = [hist EXCEPT ![idx] = r.out]
       /\ data' = r.data
       /\ keys' = r.keys
    /\ UNCHANGED <<trFile, txFile, phase, err, lenRet>>
    /\ UNCHANGED fmVars

FmIdle ==
    /\ log_every = 1
    /\ loss_acc = 0
    /\ iter_count = 0
    /\ logs = <<>>
    /\ callLog = <<>>

Init ==
    /\ trFile \in Files
    /\ txFile \in Files
    /\ phase = "new"
    /\ err = NoErr
    /\ data = <<>>
    /\ keys = <<>>
    /\ lenRet = NoLen
    /\ hist = [i \in Indices |-> NotCalled]
    /\ FmIdle

Next ==
    \/ Construct
    \/ DoLen
    \/ \E idx \in Indices : GetItem(idx)

Spec == Init /\ [][Next]_vars

---------------------------------------------------------------------------
(* CustomFinetuneModel *)

\* a mutant of ForwardCall: the period is tested before iter_count is advanced
ForwardCallTestFirst(every, acc, iters, printed, loss) ==
    LET acc1 == acc + loss
        hit == iters % every = 0
    IN  [loss_acc |-> IF hit THEN 0 ELSE acc1,
         iter_count |-> iters + 1,
         logs |-> IF hit
                  THEN Append(printed, [iter |-> iters + 1, sum |-> acc1, den |-> every])
                  ELSE printed,
         outcome |-> "NameError"]

\* a mutant of ForwardCall: stats is defined and the triple is returned
ForwardCallReturns(every, acc, iters, printed, loss) ==
    LET acc1 == acc + loss
        iters1 == iters + 1
        hit == iters1 % every = 0
    IN  [loss_acc |-> IF hit THEN 0 ELSE acc1,
         iter_count |-> iters1,
         logs |-> IF hit
                  THEN Append(printed, [iter |-> iters1, sum |-> acc1, den |-> every])
                  ELSE printed,
         outcome |-> "returned"]

\* forward from the accumulation of the loss to its return statement: the
\* printed value is sum / den; the return evaluates the undefined name stats
ForwardCall(every, acc, iters, printed, loss) ==
    LET acc1 == acc + loss
        iters1 == iters + 1
        hit == iters1 % every = 0
    IN  [loss_acc |-> IF hit THEN 0 ELSE acc1,
         iter_count |-> iters1,
         logs |-> IF hit
                  THEN Append(printed, [iter |-> iters1, sum |-> acc1, den |-> every])
                  ELSE printed,
         outcome |-> "NameError"]

Losses == 0..MaxLoss

\* a forward call whose ASR and translation steps yield the loss `loss`
Forward(loss) ==
    /\ Len(callLog) < MaxCalls
    /\ LET r == ForwardCall(log_every, loss_acc, iter_count, logs, loss) IN
       /\ loss_acc' = r.loss_acc
       /\ iter_count' = r.iter_count
       /\ logs' = r.logs
       /\ callLog' = Append(callLog, [outcome |-> r.outcome, loss |-> loss,
                                      nlogs |-> Len(r.logs)])
    /\ UNCHANGED log_every
    /\ UNCHANGED dsVars

\* a forward call that raises in its ASR or translation step (no hypothesis,
\* an error of the underlying library), before the loss is read
ForwardFail ==
    /\ Len(callLog) < MaxCalls
    /\ callLog' = Append(callLog, [outcome |-> "StepError", loss |-> 0,
                                   nlogs |-> Len(logs)])
    /\ UNCHANGED <<log_every, loss_acc, iter_count, logs>>
    /\ UNCHANGED dsVars

DsIdle ==
    /\ trFile = <<>>
    /\ txFile = <<>>
    /\ phase = "new"
    /\ err = NoErr
    /\ data = <<>>
    /\ keys = <<>>
    /\ lenRet = NoLen
    /\ hist = [i \in Indices |-> NotCalled]

\* CustomFinetuneModel.__init__
InitModel ==
    /\ log_every \in 1..MaxLogEvery
    /\ loss_acc = 0
    /\ iter_count = 0
    /\ logs = <<>>
    /\ callLog = <<>>
    /\ DsIdle

NextModel ==
    \/ \E loss \in Losses : Forward(loss)
    \/ ForwardFail

SpecModel == InitModel /\ [][NextModel]_vars

---------------------------------------------------------------------------
(* What the corpus files say, read off the lines themselves *)

\* the number of whitespace-separated fields of a line
RECURSIVE WordCount(_)
WordCount(s) ==
    LET t == LStrip(s) IN
    IF t = <<>> THEN 0
    ELSE 1 + WordCount(SubSeq(t, Len(TakeWord(t)) + 1, Len(t)))

WellFormed(line) == WordCount(line) >= 2
AllWellFormed(file) == \A i \in 1..Len(file) : WellFormed(file[i])

\* the identifier of a line, and the text that follows it
IdOf(line) == TakeWord(LStrip(line))
TextOf(line) ==
    LET t == LStrip(line) IN Strip(SubSeq(t, Len(IdOf(line)) + 1, Len(t)))

IdsOf(file) == { IdOf(file[i]) : i \in 1..Len(file) }
LinesOf(file, key) == { i \in 1..Len(file) : IdOf(file[i]) = key }
LastLine(file, key) ==
    CHOOSE i \in LinesOf(file, key) : \A j \in LinesOf(file, key) : j <= i

\* the identifiers of a file, each once, in order of first appearance
RECURSIVE FirstAppearance(_, _)
FirstAppearance(file, i) ==
    IF i > Len(file) THEN <<>>
    ELSE IF \E j \in 1..(i - 1) : IdOf(file[j]) = IdOf(file[i])
         THEN FirstAppearance(file, i + 1)
         ELSE <<IdOf(file[i])>> \o FirstAppearance(file, i + 1)

IsEscape(t) == t \in {APOS, QUOT, AMP}
HasEscape(s) == \E i \in 1..Len(s) : IsEscape(s[i])

\* the record stored for an identifier, and one field of it
Rec(key) == DictGet(data, key)
Field(key, f) == DictGet(Rec(key), f)
HasField(key, f) == DictHas(data, key) /\ DictHas(Rec(key), f)

SameIds ==
    /\ AllWellFormed(trFile)
    /\ AllWellFormed(txFile)
    /\ IdsOf(trFile) = IdsOf(txFile)

---------------------------------------------------------------------------
(* C1 *)

\* C1 as stated: for well-formed files listing the same identifiers the
\* constructor yields, for each identifier k, a record whose 'translated' is
\* the text following k on k's line of text.tc.de and whose 'text' is the text
\* following k on k's line of text, whatever the line order of the two files.
C1_TextVerbatim ==
    (phase # "new" /\ SameIds) =>
        /\ phase = "ready"
        /\ \A key \in IdsOf(trFile) :
            /\ HasField(key, "translated")
            /\ Field(key, "translated") = TextOf(trFile[LastLine(trFile, key)])
            /\ HasField(key, "text")
            /\ Field(key, "text") = TextOf(txFile[LastLine(txFile, key)])

\* C1 amended: as C1, the stored text being the text following k with every
\* " &apos;", " &quot;", " &amp;" (the escape and the space before it)
\* replaced by ', " and &; a text is never paired with another identifier.
C1_PairedById ==
    (phase # "new" /\ SameIds) =>
        /\ phase = "ready"
        /\ \A key \in IdsOf(trFile) :
            /\ HasField(key, "translated")
            /\ Field(key, "translated")
                   = Unescape(TextOf(trFile[LastLine(trFile, key)]))
            /\ HasField(key, "text")
            /\ Field(key, "text")
                   = Unescape(TextOf(txFile[LastLine(txFile, key)]))

\* two identifiers, listed in opposite orders by the two files, one of the
\* texts holding an escape after a space
C1_Witness ==
    /\ phase = "ready"
    /\ SameIds
    /\ Len(trFile) = 2
    /\ Len(txFile) = 2
    /\ IdOf(trFile[1]) # IdOf(trFile[2])
    /\ IdOf(trFile[1]) = IdOf(txFile[2])
    /\ TextOf(trFile[1]) # TextOf(txFile[2])
    /\ \E key \in IdsOf(trFile) :
           Field(key, "text") # TextOf(txFile[LastLine(txFile, key)])

---------------------------------------------------------------------------
(* C2 *)

\* C2: in every stored text every occurrence of &apos;, &quot; and &amp; has
\* been decoded, wherever it stands and whether or not a space precedes it:
\* no stored text holds an escape.
C2_EscapesDecoded ==
    phase = "ready" =>
        \A i \in 1..Len(data) : \A j \in 1..Len(data[i].v) :
            ~HasEscape(data[i].v[j].v)

---------------------------------------------------------------------------
(* C3 *)

\* C3: whenever construction succeeds, len(dataset) is the number of unique
\* identifiers of the transcript file.
C3_LenIsTranscriptIds ==
    lenRet # NoLen => lenRet[1] = Cardinality(IdsOf(txFile))

---------------------------------------------------------------------------
(* C4 *)

AllLines == trFile \o txFile
Malformed == { i \in 1..Len(AllLines) : ~WellFormed(AllLines[i]) }
FirstMalformed == CHOOSE i \in Malformed : \A j \in Malformed : i <= j
\* the place of the line the constructor raised at, counting text.tc.de first
ErrPlace == IF err.file = "text" THEN Len(trFile) + err.line ELSE err.line

\* C4: when a line of either file has fewer than two whitespace-separated
\* fields the constructor raises and produces no dataset: it never reads past
\* the first such line, and on reaching it raises ValueError there; the line
\* is not skipped and no record with an empty text is stored.
C4_FailFast ==
    (phase # "new" /\ Malformed # {}) =>
        /\ phase = "failed"
        /\ data = <<>>
        /\ keys = <<>>
        /\ err.type \in {"ValueError", "KeyError"}
        /\ ErrPlace <= FirstMalformed
        /\ (err.type = "ValueError") <=> (ErrPlace = FirstMalformed)

\* the second line of the transcript file is the malformed one, after a
\* translation file and a first transcript line that were read without error
C4_Witness ==
    /\ phase = "failed"
    /\ err = [type |-> "ValueError", file |-> "text", line |-> 2]
    /\ Len(trFile) >= 1

---------------------------------------------------------------------------
(* C5 *)

OnlyInTranslation == IdsOf(trFile) \ IdsOf(txFile)
OnlyInTranscript == IdsOf(txFile) \ IdsOf(trFile)
FirstUnknown ==
    CHOOSE i \in 1..Len(txFile) :
        /\ IdOf(txFile[i]) \in OnlyInTranscript
        /\ \A j \in 1..(i - 1) : IdOf(txFile[j]) \notin OnlyInTranscript

\* C5 as stated: with an identifier present in exactly one of the two files
\* (either direction), construction still succeeds.
C5_ConstructionSucceeds ==
    (/\ phase # "new"
     /\ AllWellFormed(trFile)
     /\ AllWellFormed(txFile)
     /\ IdsOf(trFile) # IdsOf(txFile)) => phase = "ready"

\* C5 amended: with all lines well-formed, an identifier that only the
\* translation file lists leaves construction and len() working and makes
\* __getitem__ on its index (and on no other index) raise KeyError; an
\* identifier that only the transcript file lists makes the constructor
\* itself raise KeyError, at the first line of text that names it.
C5_MismatchSurfaces ==
    (phase # "new" /\ AllWellFormed(trFile) /\ AllWellFormed(txFile)) =>
        /\ OnlyInTranscript = {} =>
            /\ phase = "ready"
            /\ \A i \in 1..Len(keys) :
                /\ keys[i] \in OnlyInTranslation
                       => hist[i - 1].kind \in {"none", "KeyError"}
                /\ keys[i] \notin OnlyInTranslation
                       => hist[i - 1].kind \in {"none", "ok"}
        /\ OnlyInTranscript # {} =>
            /\ phase = "failed"
            /\ err = [type |-> "KeyError", file |-> "text",
                      line |-> FirstUnknown]

\* an identifier only text.tc.de lists has been accessed, beside one both list
C5_Witness ==
    /\ phase = "ready"
    /\ AllWellFormed(trFile)
    /\ \E i \in 1..Len(keys) :
        /\ keys[i] \in OnlyInTranslation
        /\ hist[i - 1].kind = "KeyError"
    /\ \E i \in 1..Len(keys) : hist[i - 1].kind = "ok"
    /\ lenRet = <<2>>

---------------------------------------------------------------------------
(* C6 *)

\* C6: once __getitem__(i) has returned a record for an index i in
\* 0..len-1, every later __getitem__(i) - whatever __getitem__ and __len__
\* calls come in between - returns a record with the same speech, text and
\* translated values.
C6_StableIndexing ==
    [][\A i \in 0..(Len(keys) - 1) :
           hist[i].kind = "ok" => hist'[i] = hist[i]]_vars

\* both indices of a two-record dataset have been read, and its length asked
C6_Witness ==
    /\ phase = "ready"
    /\ Len(keys) = 2
    /\ hist[0].kind = "ok"
    /\ hist[1].kind = "ok"
    /\ hist[0].rec # hist[1].rec
    /\ lenRet = <<2>>

---------------------------------------------------------------------------
(* C7 *)

\* C7: after the constructor has returned, no __len__ and no __getitem__
\* call - returning, or raising IndexError or KeyError - changes data or
\* keys, and len(dataset) keeps returning the same value.
C7_Immutable ==
    [][phase = "ready" =>
           /\ phase' = "ready"
           /\ data' = data
           /\ keys' = keys
           /\ (lenRet # NoLen /\ lenRet' # NoLen) => lenRet' = lenRet]_vars

\* a dataset on which __getitem__ has returned, has raised KeyError (a record
\* without transcript) and has raised IndexError, and whose length was asked
C7_Witness ==
    /\ phase = "ready"
    /\ lenRet # NoLen
    /\ \E i \in Indices : hist[i].kind = "ok"
    /\ \E i \in Indices : hist[i].kind = "KeyError"
    /\ \E i \in Indices : hist[i].kind = "IndexError"

---------------------------------------------------------------------------
(* C10 *)

NoDuplicates(s) == \A i, j \in 1..Len(s) : s[i] = s[j] => i = j

---------------------------------------------------------------------------
(* C8 *)

StepsSucceeded(c) == c.outcome # "StepError"

\* the calls that got as far as a loss, oldest first
Scored == SelectSeq(callLog, StepsSucceeded)

\* whether the j-th forward call printed a log line
Emitted(j) ==
    callLog[j].nlogs > (IF j = 1 THEN 0 ELSE callLog[j - 1].nlogs)

\* how many of the first j calls got as far as a loss
ScoredUpTo(j) == Cardinality({ i \in 1..j : StepsSucceeded(callLog[i]) })

\* the sum of the losses of calls a..b of a sequence of calls
RECURSIVE SumLoss(_, _, _)
SumLoss(calls, a, b) ==
    IF a > b THEN 0 ELSE calls[a].loss + SumLoss(calls, a + 1, b)

\* C8 as stated: with log_every = N >= 1 a log line is printed on exactly the
\* forward calls whose 1-based ordinal since construction is a multiple of N,
\* and it reports the sum of the losses of the N calls since the previous log
\* line divided by N.
C8_EveryNthCall ==
    \A j \in 1..Len(callLog) :
        /\ Emitted(j) <=> (j % log_every = 0)
        /\ Emitted(j) =>
               /\ logs[callLog[j].nlogs].den = log_every
               /\ logs[callLog[j].nlogs].sum
                      = SumLoss(callLog, j - log_every + 1, j)

\* C8 amended: the ordinal counts only the forward calls whose ASR and
\* translation steps succeeded (a call that raises there reads no loss, is not
\* counted by iter_count and prints nothing); on exactly the calls whose
\* ordinal among those is a multiple of N a log line is printed, reporting
\* the sum of the losses of the N counted calls since the previous log line
\* divided by N, and the accumulator is zero right after it.
C8_EveryNthScoredCall ==
    /\ \A j \in 1..Len(callLog) :
           Emitted(j) <=> /\ StepsSucceeded(callLog[j])
                          /\ ScoredUpTo(j) % log_every = 0
    /\ Len(logs) = Len(Scored) \div log_every
    /\ \A m \in 1..Len(logs) :
           logs[m] = [iter |-> m * log_every,
                      sum |-> SumLoss(Scored, (m - 1) * log_every + 1,
                                      m * log_every),
                      den |-> log_every]
    /\ loss_acc = SumLoss(Scored, Len(logs) * log_every + 1, Len(Scored))
    /\ (Len(Scored) % log_every = 0) => loss_acc = 0

\* log_every = 2: a call failed in its ASR step, and the log line printed on
\* the fourth call reports the losses 1 and 2 of the two calls it counts
C8_Witness ==
    /\ log_every = 2
    /\ Len(callLog) = 4
    /\ ~StepsSucceeded(callLog[1])
    /\ ~StepsSucceeded(callLog[2])
    /\ Emitted(4)
    /\ logs = <<[iter |-> 2, sum |-> 3, den |-> 2]>>
    /\ loss_acc = 0

---------------------------------------------------------------------------
(* C9 *)

LastCall(calls) == calls[Len(calls)]

\* C9: a forward call whose ASR and translation steps succeed never returns:
\* it ends in NameError at its return statement, having by then added its loss
\* to the accumulator, advanced iter_count and, when the period is reached,
\* printed the log line and reset the accumulator.
C9_RaisesAfterLogging ==
    [][(Len(callLog') = Len(callLog) + 1 /\ StepsSucceeded(LastCall(callLog')))
       => /\ LastCall(callLog').outcome = "NameError"
          /\ iter_count' = iter_count + 1
          /\ IF iter_count' % log_every = 0
             THEN /\ Len(logs') = Len(logs) + 1
                  /\ logs'[Len(logs')].sum
                         = loss_acc + LastCall(callLog').loss
                  /\ loss_acc' = 0
             ELSE /\ logs' = logs
                  /\ loss_acc' = loss_acc + LastCall(callLog').loss]_vars

\* a call has ended in NameError after printing a log line, and another after
\* only adding its loss
C9_Witness ==
    /\ Len(callLog) >= 2
    /\ \E j \in 1..Len(callLog) :
           callLog[j].outcome = "NameError" /\ Emitted(j)
    /\ LastCall(callLog).outcome = "NameError"
    /\ ~Emitted(Len(callLog))
    /\ loss_acc > 0
    /\ iter_count > 0

=============================================================================
